---- MODULE Spec2Model ----
(***************************************************************************)
(* Model of the todo application's state orchestration: App (the todo      *)
(* collection, the temp todo, the error slot, the mutation flows), the     *)
(* TodoItem handlers that call the flows, and the remote todo service the  *)
(* flows talk to.                                                          *)
(*                                                                         *)
(* JavaScript runs one task at a time: a user event, a timer callback or   *)
(* the arrival of a response, each followed by all the promise reactions   *)
(* it makes runnable, is one step.  A request is sent in one step, served  *)
(* by the remote service in another, and its response is handled in a      *)
(* third; steps of different requests interleave freely.                   *)
(***************************************************************************)
EXTENDS Integers, Sequences, FiniteSets, TLC

\* ------------------------------------------------------------------ bounds
\* Requests in flight at the same time (and so bulk flows awaiting a join).
MaxInFlight == 3
\* Milliseconds that pass in one Tick step.
TickMs == 1500
\* Things the user does in one session (adds, clicks, submits, filter changes).
MaxActions == 2

\* ------------------------------------------------------- program constants
ErrorDelay == 3000

ErrLoad == "Unable to load todos"
ErrEmptyTitle == "Title should not be empty"
ErrAdd == "Unable to add a todo"
ErrUpdate == "Unable to update a todo"
ErrDelete == "Unable to delete a todo"
ErrSomeUpdate == "Some todos could not be updated"
ErrSomeDelete == "Some todos could not be deleted"
ErrUpdating == "Error updating todos"

FilterAll == "all"
FilterActive == "active"
FilterCompleted == "completed"
TodoFilterOptions == {FilterAll, FilterActive, FilterCompleted}

\* ------------------------------------------------------------------ titles
\* A title is a sequence of characters; " " is white space.
SP == " "
\* The texts a user types into the new-todo field,
NewTitles == { <<>>, <<SP>>, <<SP, SP>>, <<"a">>, <<SP, "a">>, <<"a", SP>> }
\* and into the inline editor of a todo.
EditTitles == { <<>>, <<SP>>, <<"a">>, <<"a", SP>>, <<"b">>, <<SP, "b", SP>> }

RECURSIVE trimStart(_)
trimStart(s) ==
  IF s # <<>> /\ Head(s) = SP THEN trimStart(Tail(s)) ELSE s

RECURSIVE trimEnd(_)
trimEnd(s) ==
  IF s # <<>> /\ s[Len(s)] = SP THEN trimEnd(SubSeq(s, 1, Len(s) - 1)) ELSE s

\* (mutant) nothing is trimmed.
trimNothing(s) == s

\* String.prototype.trim
trim(s) == trimEnd(trimStart(s))

\* ------------------------------------------------------------- collections
\* Array.prototype.map and Array.prototype.filter on sequences.
Map(F(_), s) == [i \in 1..Len(s) |-> F(s[i])]

RECURSIVE Filter(_, _)
Filter(P(_), s) ==
  IF s = <<>> THEN <<>>
  ELSE IF P(Head(s)) THEN <<Head(s)>> \o Filter(P, Tail(s))
       ELSE Filter(P, Tail(s))

Range(s) == {s[i] : i \in 1..Len(s)}
Ids(s) == {s[i].id : i \in 1..Len(s)}

\* A todo as the client holds it; loading is the optional local-only field
\* (absent reads as false).
Todo(id, title, completed, loading) ==
  [id |-> id, title |-> title, completed |-> completed, loading |-> loading]

\* A record as the remote service returns it: it carries no loading field.
FromServer(r) == Todo(r.id, r.title, r.completed, FALSE)

VARIABLES
  todos,        \* App: the todo collection
  tempTodo,     \* App: <<>> (null) or <<the placeholder>>
  error,        \* App: the error slot, "" when empty
  todoFilterValue, \* App: the filter mode
  elapsed,      \* ms since the auto-dismiss timer was armed
  shown,        \* ms since a flow last raised a message (history)
  itemLoading,  \* TodoItem: the local loading state of each mounted item
  reqs,         \* the requests in flight, in the order they were sent
  flows,        \* the toggle-all and clear-completed flows awaiting their
                \* join; failed, snap and quiet are history: the ids whose
                \* request was rejected, the collection at invocation, and
                \* whether only the flow itself changed the collection since
  load,         \* the initial fetch-all: its state and its response
  server,       \* the remote service: its records and the next id
  userActions,  \* how many things the user has done so far
  last          \* the step taken last (history)

vars ==
  << todos, tempTodo, error, todoFilterValue, elapsed, shown, itemLoading,
     reqs, flows, load, server, userActions, last >>

Slots == 1..MaxInFlight

NoRec == [id |-> 0, title |-> <<>>, completed |-> FALSE]

NoReq ==
  [kind |-> "none", id |-> 0, title |-> <<>>, completed |-> FALSE,
   field |-> "none", caller |-> "none", flow |-> 0, inst |-> FALSE,
   status |-> "none", resp |-> NoRec]

NoFlow ==
  [kind |-> "none", target |-> FALSE, rejected |-> FALSE, failed |-> {},
   snap |-> <<>>, quiet |-> FALSE]

\* What the step taken last did: the operation, the todo and the caller it
\* was about, what became of a rejection (signal), whether it ran the join
\* of a bulk flow (join), and for a step of a bulk flow the flow's target
\* and whether any of its requests has been rejected so far; cleared tells
\* whether the step emptied an error slot that held a message.
Ev(op, id, caller, signal, join, target, rejected) ==
  [op |-> op, id |-> id, caller |-> caller, signal |-> signal, join |-> join,
   target |-> target, rejected |-> rejected, cleared |-> FALSE]

Step(op, id, caller, signal) == Ev(op, id, caller, signal, "none", FALSE, FALSE)

\* The remote service's possible contents when the page is opened: the
\* todos 1..n, each completed or not.
RECURSIVE InitRecords(_)
InitRecords(n) ==
  IF n = 0 THEN {<<>>}
  ELSE { Append(s, [id |-> n, title |-> <<"a">>, completed |-> c]) :
           s \in InitRecords(n - 1), c \in BOOLEAN }

\* The state after App is constructed and mounted: the fetch-all is sent.
Init ==
  /\ todos = <<>>
  /\ tempTodo = <<>>
  /\ error = ""
  /\ todoFilterValue = FilterAll
  /\ elapsed = 0
  /\ shown = 0
  /\ itemLoading = <<>>
  /\ reqs = <<>>
  /\ flows = [f \in Slots |-> NoFlow]
  /\ load = [status |-> "sent", resp |-> <<>>]
  /\ \E n \in {0, 1, 2} : \E recs \in InitRecords(n) :
       server = [records |-> recs, nextId |-> n + 1]
  /\ userActions = 0
  /\ last = Step("mount", 0, "none", "none")

\* ----------------------------------------------------------- filter policy
filterTodos(todosForFilter, statusFilterValue) ==
  LET keep(todo) ==
        CASE statusFilterValue = FilterActive -> ~todo.completed
          [] statusFilterValue = FilterCompleted -> todo.completed
          [] OTHER -> TRUE
  IN  Filter(keep, todosForFilter)

filteredTodos == filterTodos(todos, todoFilterValue)

uncompletedOf(ts) == LET p(todo) == ~todo.completed IN Filter(p, ts)
completedOf(ts) == LET p(todo) == todo.completed IN Filter(p, ts)

uncompletedTodos == uncompletedOf(todos)
completedTodos == completedOf(todos)

\* ------------------------------------------------------- TodoList, TodoItem
\* TodoList renders one TodoItem, keyed by id, per todo of the filtered list.
Mounted(ts, flt) == Ids(filterTodos(ts, flt))

\* The isLoading prop TodoList passes to the item of todo id.
isLoading(ts, id) == \E i \in 1..Len(ts) : ts[i].id = id /\ ts[i].loading

\* The todo an item shows.
TodoOf(ts, id) ==
  ts[CHOOSE i \in 1..Len(ts) :
       ts[i].id = id /\ \A j \in 1..(i - 1) : ts[j].id # id]

\* The items' local loading state after the next render: a newly mounted
\* item starts from its isLoading prop (useState(isLoading)), the effect on
\* [isLoading] copies the prop when it changed, and otherwise the state the
\* handlers set (il) stays.
Render(ts, flt, il) ==
  [id \in Mounted(ts, flt) |->
     IF id \notin Mounted(todos, todoFilterValue) THEN isLoading(ts, id)
     ELSE IF isLoading(ts, id) # isLoading(todos, id) THEN isLoading(ts, id)
     ELSE il[id]]

\* setLoading(value) by the item instance that issued request r: it acts
\* only while that instance is mounted.
setLoading(il, r, value) ==
  IF r.inst /\ r.id \in DOMAIN il THEN [il EXCEPT ![r.id] = value] ELSE il

\* ------------------------------------------------------------ the requests
\* Whether n more requests fit in the model's bound.
Room(n) == Len(reqs) + n <= MaxInFlight
Send(rq, r) == Append(rq, r)
SendAll(rq, rs) == rq \o rs
\* The requests left when the one at position s has settled.
Settled(rq, s) == SubSeq(rq, 1, s - 1) \o SubSeq(rq, s + 1, Len(rq))

FreeFlows == {f \in Slots : flows[f].kind = "none"}
LowestFreeFlow == CHOOSE f \in FreeFlows : \A g \in FreeFlows : f <= g

\* postTodo({userId, title, completed: false})
PostReq(title) ==
  [NoReq EXCEPT !.kind = "post", !.title = title, !.caller = "header",
                !.status = "sent"]

\* patchTodo(todoId, {completed}) and patchTodo(todoId, {title})
PatchCompleted(id, completed, caller, flow, inst) ==
  [NoReq EXCEPT !.kind = "patch", !.id = id, !.field = "completed",
                !.completed = completed, !.caller = caller, !.flow = flow,
                !.inst = inst, !.status = "sent"]

PatchTitle(id, title, caller, inst) ==
  [NoReq EXCEPT !.kind = "patch", !.id = id, !.field = "title",
                !.title = title, !.caller = caller, !.inst = inst,
                !.status = "sent"]

\* deleteTodo(todoId)
DeleteReq(id, caller, flow, inst) ==
  [NoReq EXCEPT !.kind = "delete", !.id = id, !.caller = caller,
                !.flow = flow, !.inst = inst, !.status = "sent"]

\* ------------------------------------------------------- committing a step
\* The tasks that call setError with a message: the empty-title check, the
\* catch of a flow, and a bulk flow's join that counted a rejection.
Raises(ev) ==
  \/ ev.op \in {"addEmpty", "postFail", "patchFail", "deleteFail", "loadFail"}
  \/ (ev.join # "none" /\ ev.rejected)

\* The state after a task: App's state as the task's setState calls leave
\* it, then the render and its effects.  The auto-dismiss effect depends on
\* [error]: it re-arms the timer only when the error value changed.  An item
\* that is no longer rendered is unmounted, and a request it issued has no
\* instance left to act on.  own is the bulk flow the task belongs to (0 for
\* none); a flow is quiet while only its own tasks changed the collection.
Commit(ts, tmp, err, flt, il, rq, fl, own, ev) ==
  /\ last' = [ev EXCEPT !.cleared = (error # "" /\ err = "")]
  /\ shown' = IF err = "" \/ Raises(ev) THEN 0 ELSE shown
  /\ todos' = ts
  /\ tempTodo' = tmp
  /\ error' = err
  /\ todoFilterValue' = flt
  /\ elapsed' = IF err = error THEN elapsed ELSE 0
  /\ itemLoading' = Render(ts, flt, il)
  /\ reqs' = [s \in DOMAIN rq |->
                IF rq[s].inst /\ rq[s].id \notin Mounted(ts, flt)
                THEN [rq[s] EXCEPT !.inst = FALSE] ELSE rq[s]]
  /\ flows' = [f \in Slots |->
                 IF fl[f].kind # "none" /\ f # own /\ ts # todos
                 THEN [fl[f] EXCEPT !.quiet = FALSE] ELSE fl[f]]

\* What becomes of a request's rejection: "none" when the flow swallows it,
\* "handled" when the flow re-signals it and some handler of the caller
\* consumes it, "unhandled" when it is re-signalled and nothing consumes it.
Signal(resignalled, consumed) ==
  IF ~resignalled THEN "none" ELSE IF consumed THEN "handled" ELSE "unhandled"

\* The new-todo form (Header) consumes addTodo's rejection.
headerCatches == TRUE

\* ------------------------------------------------------------------ addTodo
\* (mutant) the new record is put first.
addTodoThenPrepends(ts, response) == <<response>> \o ts

\* try: setTodos(prevTodos => [...prevTodos, response]); setError('')
addTodoThen(ts, response) == Append(ts, response)
addTodoThenError(err) == ""
\* catch: setError('Unable to add a todo'); throw err
addTodoCatch(ts) == ts
addTodoCatchError(err) == ErrAdd
addTodoRethrows == TRUE
\* (mutant) the placeholder is cleared on success only.
addTodoFinallyKeeps(tmp) == tmp

\* finally: setTempTodo(null)
addTodoFinally(tmp) == <<>>

\* The title check: an empty trimmed title sends nothing.
addTodoRejectsTitle(newTodoTitle) == newTodoTitle = <<>>

addTodo(title) ==
  LET newTodoTitle == trim(title) IN
  IF addTodoRejectsTitle(newTodoTitle)
  THEN /\ Commit(todos, tempTodo, ErrEmptyTitle, todoFilterValue, itemLoading,
                 reqs, flows, 0,
                 Step("addEmpty", 0, "header", "none"))
       /\ UNCHANGED <<load, server>>
  ELSE /\ Room(1)
       /\ Commit(todos, <<Todo(0, newTodoTitle, FALSE, FALSE)>>, error,
                 todoFilterValue, itemLoading, Send(reqs, PostReq(newTodoTitle)),
                 flows, 0,
                 Step("addTodo", 0, "header", "none"))
       /\ UNCHANGED <<load, server>>

\* --------------------------------------------------------------- updateTodo
\* (mutant) a response for a todo that is gone puts it back.
updateTodoThenUpserts(ts, response) ==
  LET f(todo) == IF todo.id = response.id THEN response ELSE todo
  IN  IF response.id \in Ids(ts) THEN Map(f, ts) ELSE Append(ts, response)

\* then: setTodos(prev => prev.map(todo => todo.id === response.id ? ...))
updateTodoThen(ts, response) ==
  LET f(todo) == IF todo.id = response.id THEN response ELSE todo
  IN  Map(f, ts)
\* (mutant) a successful update clears the message as add and delete do.
updateTodoThenErrorClears(err) == ""
updateTodoThenError(err) == err
\* catch: setError('Unable to update a todo'); return Promise.reject(err)
updateTodoCatch(ts) == ts
updateTodoCatchError(err) == ErrUpdate
updateTodoRejects == TRUE

\* --------------------------------------------------------------- removeTodo
\* then: setTodos(prev => prev.filter(todo => todo.id !== todoId)); setError('')
removeTodoThen(ts, todoId) ==
  LET p(todo) == todo.id # todoId IN Filter(p, ts)
removeTodoThenError(err) == ""
\* catch: setError('Unable to delete a todo'); return Promise.reject(err)
removeTodoCatch(ts) == ts
removeTodoCatchError(err) == ErrDelete
removeTodoRejects == TRUE

\* ----------------------------------------------------------- toggleAllTodos
toggleValue(ts) == uncompletedOf(ts) # <<>>

\* todos.map(todo => todo.completed !== toggleValue
\*                    ? {...todo, loading: true} : todo)
updatedTodos(ts, v) ==
  LET f(todo) == IF todo.completed # v THEN [todo EXCEPT !.loading = TRUE]
                 ELSE todo
  IN  Map(f, ts)

\* todos.filter(todo => todo.completed !== toggleValue)
todosToToggle(ts, v) == LET p(todo) == todo.completed # v IN Filter(p, ts)

\* (mutant) the join only clears loading: completed stays what the
\* responses made it.
toggleAllSettledKeeps(ts, v) ==
  LET f(todo) == [todo EXCEPT !.loading = FALSE] IN Map(f, ts)

\* (mutant) the join sets completed and leaves loading as it is.
toggleAllSettledStillLoading(ts, v) ==
  LET f(todo) == [todo EXCEPT !.completed = v] IN Map(f, ts)

\* After the join: every todo gets completed = toggleValue, loading = false.
toggleAllSettled(ts, v) ==
  LET f(todo) ==
        [todo EXCEPT !.completed = IF todo.completed # v THEN v
                                   ELSE todo.completed,
                     !.loading = FALSE]
  IN  Map(f, ts)

\* (mutant) the join reports nothing of its own.
toggleAllSettledErrorSilent(err, rejected) == err

\* if (rejectedTodos.length) setError('Some todos could not be updated')
toggleAllSettledError(err, rejected) == IF rejected THEN ErrSomeUpdate ELSE err

\* ----------------------------------------------------- removeCompletedTodos
\* completedTodos.map(todo => removeTodo(todo.id))
todosToRemove(ts) == completedOf(ts)

\* if (rejectedTodos.length) setError('Some todos could not be deleted')
removeCompletedSettledError(err, rejected) ==
  IF rejected THEN ErrSomeDelete ELSE err

\* ------------------------------------------------------------------ the join
\* Promise.allSettled: the task that settles the last request of bulk flow f
\* goes on with the flow's continuation.  ts and err are the collection and
\* the error as the request's own handler left them; failed tells whether
\* this request was rejected.
Settle(f, s, failed, ts, err) ==
  LET rejected == flows[f].rejected \/ failed
      isLast == \A t \in DOMAIN reqs \ {s} : reqs[t].flow # f
  IN  IF f = 0
      THEN [todos |-> ts, error |-> err, flows |-> flows, join |-> "none",
            target |-> FALSE, rejected |-> FALSE]
      ELSE IF ~isLast
      THEN [todos |-> ts, error |-> err,
            flows |-> [flows EXCEPT ![f].rejected = rejected,
                                    ![f].failed =
                                      IF failed THEN @ \cup {reqs[s].id}
                                      ELSE @],
            join |-> "none", target |-> flows[f].target, rejected |-> rejected]
      ELSE IF flows[f].kind = "toggle"
      THEN [todos |-> toggleAllSettled(ts, flows[f].target),
            error |-> toggleAllSettledError(err, rejected),
            flows |-> [flows EXCEPT ![f] = NoFlow],
            join |-> "toggle", target |-> flows[f].target,
            rejected |-> rejected]
      ELSE [todos |-> ts,
            error |-> removeCompletedSettledError(err, rejected),
            flows |-> [flows EXCEPT ![f] = NoFlow],
            join |-> "clear", target |-> FALSE, rejected |-> rejected]

\* ------------------------------------------------ handling a response: add
\* A request that has not been served can fail (the network, the service):
\* the service's records stay as they are and the request's promise is
\* rejected; the handlers named ...Fail are the tasks that run then.

\* addTodo after "await postTodo(newTodo)" resolved.
PostOk(s) ==
  /\ s \in DOMAIN reqs
  /\ reqs[s].kind = "post" /\ reqs[s].status = "ok"
  /\ Commit(addTodoThen(todos, FromServer(reqs[s].resp)),
            addTodoFinally(tempTodo),
            addTodoThenError(error), todoFilterValue, itemLoading,
            Settled(reqs, s), flows, 0,
            Step("postOk", reqs[s].resp.id, "header", "none"))
  /\ UNCHANGED <<load, server>>

\* addTodo after "await postTodo(newTodo)" rejected.
PostFail(s) ==
  /\ s \in DOMAIN reqs
  /\ reqs[s].kind = "post" /\ reqs[s].status = "sent"
  /\ Commit(addTodoCatch(todos), addTodoFinally(tempTodo),
            addTodoCatchError(error), todoFilterValue, itemLoading,
            Settled(reqs, s), flows, 0,
            Step("postFail", 0, "header",
                 Signal(addTodoRethrows, headerCatches)))
  /\ UNCHANGED <<load, server>>

\* --------------------------------------------- handling a response: update
\* Who consumes the rejection updateTodo returns: the inline editor has a
\* .catch, Promise.allSettled takes every outcome, the status checkbox has
\* only a .finally.
updateCallerCatches(caller) == caller \in {"edit", "toggleAll"}

\* (mutant) the item handlers have no .finally.
itemFinallyMissing(il, r) == il

\* .finally(() => setLoading(false)) of the item handlers.
itemFinally(il, r) ==
  IF r.caller \in {"status", "edit", "button"} THEN setLoading(il, r, FALSE)
  ELSE il

PatchOk(s) ==
  /\ s \in DOMAIN reqs
  /\ reqs[s].kind = "patch" /\ reqs[s].status = "ok"
  /\ LET r == reqs[s]
         j == Settle(r.flow, s, FALSE,
                     updateTodoThen(todos, FromServer(r.resp)),
                     updateTodoThenError(error))
     IN  /\ Commit(j.todos, tempTodo, j.error, todoFilterValue,
                   itemFinally(itemLoading, r), Settled(reqs, s),
                   j.flows, r.flow,
                   Ev("patchOk", r.id, r.caller, "none",
                      j.join, j.target, j.rejected))
  /\ UNCHANGED <<load, server>>

PatchFail(s) ==
  /\ s \in DOMAIN reqs
  /\ reqs[s].kind = "patch" /\ reqs[s].status = "sent"
  /\ LET r == reqs[s]
         j == Settle(r.flow, s, TRUE, updateTodoCatch(todos),
                     updateTodoCatchError(error))
     IN  /\ Commit(j.todos, tempTodo, j.error, todoFilterValue,
                   itemFinally(itemLoading, r), Settled(reqs, s),
                   j.flows, r.flow,
                   Ev("patchFail", r.id, r.caller,
                      Signal(updateTodoRejects, updateCallerCatches(r.caller)),
                      j.join, j.target, j.rejected))
  /\ UNCHANGED <<load, server>>

\* --------------------------------------------- handling a response: delete
\* Who consumes the rejection removeTodo returns: Promise.allSettled does,
\* the delete button has only a .finally.
removeCallerCatches(caller) == caller = "clearCompleted"

DeleteOk(s) ==
  /\ s \in DOMAIN reqs
  /\ reqs[s].kind = "delete" /\ reqs[s].status = "ok"
  /\ LET r == reqs[s]
         j == Settle(r.flow, s, FALSE, removeTodoThen(todos, r.id),
                     removeTodoThenError(error))
     IN  /\ Commit(j.todos, tempTodo, j.error, todoFilterValue,
                   itemFinally(itemLoading, r), Settled(reqs, s),
                   j.flows, r.flow,
                   Ev("deleteOk", r.id, r.caller, "none",
                      j.join, j.target, j.rejected))
  /\ UNCHANGED <<load, server>>

DeleteFail(s) ==
  /\ s \in DOMAIN reqs
  /\ reqs[s].kind = "delete" /\ reqs[s].status = "sent"
  /\ LET r == reqs[s]
         j == Settle(r.flow, s, TRUE, removeTodoCatch(todos),
                     removeTodoCatchError(error))
     IN  /\ Commit(j.todos, tempTodo, j.error, todoFilterValue,
                   itemFinally(itemLoading, r), Settled(reqs, s),
                   j.flows, r.flow,
                   Ev("deleteFail", r.id, r.caller,
                      Signal(removeTodoRejects, removeCallerCatches(r.caller)),
                      j.join, j.target, j.rejected))
  /\ UNCHANGED <<load, server>>

\* ------------------------------------------------------------- fetch todos
\* getTodos().then(setTodos)
LoadOk ==
  /\ load.status = "ok"
  /\ Commit(Map(FromServer, load.resp), tempTodo, error, todoFilterValue,
            itemLoading, reqs, flows, 0,
            Step("loadOk", 0, "none", "none"))
  /\ load' = [status |-> "done", resp |-> <<>>]
  /\ UNCHANGED server

\* (mutant) a failed fetch goes unreported.
loadCatchErrorSilent(err) == err

\* .catch(() => setError('Unable to load todos'))
loadCatchError(err) == ErrLoad

LoadFail ==
  /\ load.status = "sent"
  /\ Commit(todos, tempTodo, loadCatchError(error), todoFilterValue,
            itemLoading, reqs, flows, 0,
            Step("loadFail", 0, "none", "handled"))
  /\ load' = [status |-> "failed", resp |-> <<>>]
  /\ UNCHANGED server

\* ----------------------------------------------------------- toggleAllTodos
\* (mutant) toggle-all goes on with an empty collection.
toggleAllNeverReturnsEarly(ts) == FALSE

\* if (!todos.length) { return; }
toggleAllReturnsEarly(ts) == Len(ts) = 0

toggleAllTodos ==
  IF toggleAllReturnsEarly(todos)
  THEN /\ UNCHANGED <<todos, tempTodo, error, todoFilterValue, elapsed,
                      shown, itemLoading, reqs, flows, load, server>>
       /\ last' = Step("toggleAllEmpty", 0, "header", "none")
  ELSE LET v == toggleValue(todos)
           toToggle == todosToToggle(todos, v)
       IN  /\ Room(Len(toToggle))
           /\ FreeFlows # {}
           /\ LET f == LowestFreeFlow
                  send(todo) == PatchCompleted(todo.id, v, "toggleAll", f, FALSE)
              IN  /\ Commit(updatedTodos(todos, v), tempTodo, error,
                            todoFilterValue, itemLoading,
                            SendAll(reqs, Map(send, toToggle)),
                            [flows EXCEPT ![f] =
                               [kind |-> "toggle", target |-> v,
                                rejected |-> FALSE, failed |-> {},
                                snap |-> <<>>, quiet |-> TRUE]], f,
                            Ev("toggleAll", 0, "header", "none", "none", v,
                               FALSE))
           /\ UNCHANGED <<load, server>>

\* ----------------------------------------------------- removeCompletedTodos
removeCompletedTodos ==
  IF Len(completedTodos) = 0
  THEN /\ UNCHANGED <<todos, tempTodo, error, todoFilterValue, elapsed,
                      shown, itemLoading, reqs, flows, load, server>>
       /\ last' = Step("clearCompletedEmpty", 0, "footer", "none")
  ELSE LET toRemove == todosToRemove(todos)
       IN  /\ Room(Len(toRemove))
           /\ FreeFlows # {}
           /\ LET f == LowestFreeFlow
                  send(todo) == DeleteReq(todo.id, "clearCompleted", f, FALSE)
              IN  /\ Commit(todos, tempTodo, error, todoFilterValue,
                            itemLoading, SendAll(reqs, Map(send, toRemove)),
                            [flows EXCEPT ![f] =
                               [kind |-> "clear", target |-> FALSE,
                                rejected |-> FALSE, failed |-> {},
                                snap |-> todos, quiet |-> TRUE]], f,
                            Step("clearCompleted", 0, "footer", "none"))
           /\ UNCHANGED <<load, server>>

\* ------------------------------------------------------ TodoItem's handlers
\* The checkbox, the title field and the delete button are disabled while
\* the item's local loading state is set.
Enabled(id) == id \in DOMAIN itemLoading /\ ~itemLoading[id]

\* setLoading(true); onDelete(id).finally(() => setLoading(false))
handleDeleteTodoButtonClick(id) ==
  /\ Enabled(id)
  /\ Room(1)
  /\ Commit(todos, tempTodo, error, todoFilterValue,
            [itemLoading EXCEPT ![id] = TRUE],
            Send(reqs, DeleteReq(id, "button", 0, TRUE)), flows, 0,
            Step("deleteClick", id, "button", "none"))
  /\ UNCHANGED <<load, server>>

\* setLoading(true); onUpdate(id, {completed: !completed}).finally(...)
handleTodoStatusChange(id) ==
  /\ Enabled(id)
  /\ Room(1)
  /\ Commit(todos, tempTodo, error, todoFilterValue,
            [itemLoading EXCEPT ![id] = TRUE],
            Send(reqs, PatchCompleted(id, ~TodoOf(todos, id).completed,
                                      "status", 0, TRUE)), flows, 0,
            Step("statusChange", id, "status", "none"))
  /\ UNCHANGED <<load, server>>

\* Submitting the inline editor holding editableTodoTitleValue.
handleEditTodoFormSubmit(id, editableTodoTitleValue) ==
  LET trimmedTitle == trim(editableTodoTitleValue) IN
  /\ Enabled(id)
  /\ IF trimmedTitle = TodoOf(todos, id).title
     THEN /\ UNCHANGED <<todos, tempTodo, error, todoFilterValue, elapsed,
                         shown, itemLoading, reqs, flows, load, server>>
          /\ last' = Step("editSame", id, "edit", "none")
     ELSE IF trimmedTitle = <<>>
     THEN handleDeleteTodoButtonClick(id)
     ELSE /\ Room(1)
          /\ Commit(todos, tempTodo, error, todoFilterValue,
                    [itemLoading EXCEPT ![id] = TRUE],
                    Send(reqs, PatchTitle(id, trimmedTitle, "edit", TRUE)),
                    flows, 0,
                    Step("editSubmit", id, "edit", "none"))
          /\ UNCHANGED <<load, server>>

\* ------------------------------------------------------------------- Footer
setTodoFilterValue(flt) ==
  /\ flt # todoFilterValue
  /\ Commit(todos, tempTodo, error, flt, itemLoading, reqs, flows, 0,
            Step("filter", 0, "footer", "none"))
  /\ UNCHANGED <<load, server>>

\* ------------------------------------------------------ error auto-dismiss
\* Time passes while the timer is armed.
Tick ==
  /\ error # "" /\ elapsed < ErrorDelay
  /\ elapsed' = elapsed + TickMs
  /\ shown' = shown + TickMs
  /\ UNCHANGED <<todos, tempTodo, error, todoFilterValue, itemLoading, reqs,
                 flows, load, server>>
  /\ last' = Step("tick", 0, "none", "none")

\* setTimeout(() => setError(''), 3000)
TimerFires ==
  /\ error # "" /\ elapsed >= ErrorDelay
  /\ Commit(todos, tempTodo, "", todoFilterValue, itemLoading, reqs, flows, 0,
            Step("timer", 0, "none", "none"))
  /\ UNCHANGED <<load, server>>

\* ------------------------------------------------------- the remote service
Served(r, status, resp) == [r EXCEPT !.status = status, !.resp = resp]

ServeStep(rq, srv, ld) ==
  /\ reqs' = rq
  /\ server' = srv
  /\ load' = ld
  /\ UNCHANGED <<todos, tempTodo, error, todoFilterValue, elapsed, shown,
                 itemLoading, flows>>
  /\ last' = Step("serve", 0, "none", "none")

\* Create: the record gets the next id.
ServePost(s) ==
  /\ s \in DOMAIN reqs
  /\ reqs[s].kind = "post" /\ reqs[s].status = "sent"
  /\ LET rec == [id |-> server.nextId, title |-> reqs[s].title,
                 completed |-> reqs[s].completed]
     IN  ServeStep([reqs EXCEPT ![s] = Served(@, "ok", rec)],
                   [records |-> Append(server.records, rec),
                    nextId |-> server.nextId + 1], load)

\* Update: the fields given are changed, the canonical record is returned.
ServePatch(s) ==
  /\ s \in DOMAIN reqs
  /\ reqs[s].kind = "patch" /\ reqs[s].status = "sent"
  /\ reqs[s].id \in Ids(server.records)
  /\ LET r == reqs[s]
         upd(rec) ==
           IF rec.id # r.id THEN rec
           ELSE IF r.field = "title" THEN [rec EXCEPT !.title = r.title]
           ELSE [rec EXCEPT !.completed = r.completed]
         recs == Map(upd, server.records)
         rec == CHOOSE x \in Range(recs) : x.id = r.id
     IN  ServeStep([reqs EXCEPT ![s] = Served(@, "ok", rec)],
                   [server EXCEPT !.records = recs], load)

\* Delete.
ServeDelete(s) ==
  /\ s \in DOMAIN reqs
  /\ reqs[s].kind = "delete" /\ reqs[s].status = "sent"
  /\ reqs[s].id \in Ids(server.records)
  /\ LET p(rec) == rec.id # reqs[s].id
     IN  ServeStep([reqs EXCEPT ![s] = Served(@, "ok", NoRec)],
                   [server EXCEPT !.records = Filter(p, server.records)], load)

\* Fetch-all.
ServeGet ==
  /\ load.status = "sent"
  /\ ServeStep(reqs, server, [status |-> "ok", resp |-> server.records])

\* ---------------------------------------------------------------- the system
\* A step is something the user does (an add, a click, a submit, a filter
\* change), at most n times in a session, or something the environment does
\* (a response arrives, the timer fires, time passes, the remote service
\* serves a request).
User(n, A) == userActions < n /\ userActions' = userActions + 1 /\ A
Env(A) == UNCHANGED userActions /\ A

\* The tasks the user does not start: responses, the timer, the service.
Environment ==
  \/ \E s \in Slots : Env(PostOk(s))
  \/ \E s \in Slots : Env(PostFail(s))
  \/ \E s \in Slots : Env(PatchOk(s))
  \/ \E s \in Slots : Env(PatchFail(s))
  \/ \E s \in Slots : Env(DeleteOk(s))
  \/ \E s \in Slots : Env(DeleteFail(s))
  \/ Env(LoadOk)
  \/ Env(LoadFail)
  \/ Env(Tick)
  \/ Env(TimerFires)
  \/ \E s \in Slots : Env(ServePost(s))
  \/ \E s \in Slots : Env(ServePatch(s))
  \/ \E s \in Slots : Env(ServeDelete(s))
  \/ Env(ServeGet)

\* The tasks the user starts.
UserSteps ==
  \/ \E title \in NewTitles : User(MaxActions, addTodo(title))
  \/ User(MaxActions, toggleAllTodos)
  \/ User(MaxActions, removeCompletedTodos)
  \/ \E id \in Ids(todos) : User(MaxActions, handleDeleteTodoButtonClick(id))
  \/ \E id \in Ids(todos) : User(MaxActions, handleTodoStatusChange(id))
  \/ \E id \in Ids(todos), title \in EditTitles :
       User(MaxActions, handleEditTodoFormSubmit(id, title))
  \/ \E flt \in TodoFilterOptions : User(MaxActions, setTodoFilterValue(flt))

Next ==
  \/ UserSteps
  \/ Environment

Spec == Init /\ [][Next]_vars

\* The runs in which the user works with the header's field and the two bulk
\* controls only, one user action longer than the runs of Next: long enough
\* to add a todo while the first fetch is under way, toggle all and clear.
NextBulk ==
  \/ User(MaxActions + 1, addTodo(<<"a">>))
  \/ User(MaxActions + 1, toggleAllTodos)
  \/ User(MaxActions + 1, removeCompletedTodos)
  \/ Environment

SpecBulk == Init /\ [][NextBulk]_vars

\* The runs in which no request fails: every request is served and its
\* response handled.
NextNoFail ==
  \/ UserSteps
  \/ \E s \in Slots : Env(PostOk(s))
  \/ \E s \in Slots : Env(PatchOk(s))
  \/ \E s \in Slots : Env(DeleteOk(s))
  \/ Env(LoadOk)
  \/ Env(Tick)
  \/ Env(TimerFires)
  \/ \E s \in Slots : Env(ServePost(s))
  \/ \E s \in Slots : Env(ServePatch(s))
  \/ \E s \in Slots : Env(ServeDelete(s))
  \/ Env(ServeGet)

SpecNoFail == Init /\ [][NextNoFail]_vars

\* ======================================================================
\* The claims.  A step is told by last' (every step of Next sets it); the
\* formulas below read the state before the step unprimed and the state
\* after it primed.
\* ======================================================================

\* The requests a step sent: those appended to the ones in flight.
Sent == SubSeq(reqs', Len(reqs) + 1, Len(reqs'))
\* The step settled the request at position s and left the others as they were.
SettledAt(s) ==
  /\ s \in DOMAIN reqs
  /\ Len(reqs') = Len(reqs) - 1
  /\ \A t \in 1..(s - 1) : reqs'[t] = reqs[t]
  /\ \A t \in s..Len(reqs') : reqs'[t] = reqs[t + 1]
\* Some todo of collection ts is uncompleted.
SomeUncompleted(ts) == \E i \in 1..Len(ts) : ~ts[i].completed
\* A text of white space only.
Blank(t) == \A i \in 1..Len(t) : t[i] = SP

\* C1: toggle-all on a non-empty collection takes target = TRUE exactly when
\* some todo is uncompleted at invocation; the step that joins the flow
\* leaves every todo of the collection with completed = target and loading
\* cleared, whether or not its own update succeeded; hence a toggle-all
\* invoked next gets the opposite target (all completed -> all uncompleted,
\* mixed or all uncompleted -> all completed).
C1_Step ==
  /\ last'.op = "toggleAll" =>
       /\ Len(todos) > 0
       /\ \E f \in Slots :
            /\ flows[f].kind = "none" /\ flows'[f].kind = "toggle"
            /\ flows'[f].target = SomeUncompleted(todos)
  /\ \A f \in Slots :
       (flows[f].kind = "toggle" /\ flows'[f].kind = "none") =>
         /\ \A i \in 1..Len(todos') :
              todos'[i].completed = flows[f].target /\ ~todos'[i].loading
         /\ todos' # <<>> => SomeUncompleted(todos') = ~flows[f].target

C1_ToggleAllSettles == [][C1_Step]_vars

\* The second of two successive toggle-alls on two todos has settled, one of
\* its updates having failed: both todos are uncompleted.
C1_Witness ==
  /\ last.join = "toggle" /\ last.rejected /\ ~last.target
  /\ userActions = 2 /\ Len(todos) = 2
  /\ \A i \in 1..Len(todos) : ~todos[i].completed /\ ~todos[i].loading

\* C2: toggle-all sends, in one step, exactly one update {completed: target}
\* per todo whose completed differs from the target and none for any other;
\* the flow stays open until every one of them has settled; a success is
\* applied and a failure changes nothing, whatever became of the others; and
\* when the flow joins with a failed update the error is "Some todos could
\* not be updated".
C2_Step ==
  /\ last'.op = "toggleAll" =>
       LET v == SomeUncompleted(todos) IN
       /\ SubSeq(reqs', 1, Len(reqs)) = reqs
       /\ \A k \in 1..Len(Sent) :
            /\ Sent[k].kind = "patch" /\ Sent[k].field = "completed"
            /\ Sent[k].completed = v /\ Sent[k].status = "sent"
       /\ \A id \in Ids(todos) \cup Ids(Sent) :
            Cardinality({k \in 1..Len(Sent) : Sent[k].id = id})
              = Cardinality({i \in 1..Len(todos) :
                               todos[i].id = id /\ todos[i].completed # v})
  /\ \A f \in Slots :
       flows'[f].kind = "toggle" => \E t \in DOMAIN reqs' : reqs'[t].flow = f
  /\ \A f \in Slots :
       (flows[f].kind = "toggle" /\ flows'[f].kind = "none") =>
         /\ \A t \in DOMAIN reqs' : reqs'[t].flow # f
         /\ last'.rejected => error' = ErrSomeUpdate
  /\ (last'.caller = "toggleAll" /\ last'.join = "none") =>
       /\ Len(todos') = Len(todos)
       /\ \A i \in 1..Len(todos) :
            IF last'.op = "patchOk" /\ todos[i].id = last'.id
            THEN /\ todos'[i].id = last'.id
                 /\ todos'[i].completed = last'.target
            ELSE todos'[i] = todos[i]

C2_ToggleAllRequests == [][C2_Step]_vars

\* A toggle-all of two todos has joined: one update failed, the other, which
\* settled after it, was applied.
C2_Witness ==
  /\ last.join = "toggle" /\ last.rejected /\ last.op = "patchOk"
  /\ error = ErrSomeUpdate /\ Len(todos) = 2 /\ userActions = 1

\* C3: the step that handles a failed create leaves the collection as it
\* was, sets the error to "Unable to add a todo", clears the temp todo and
\* re-signals the failure to the caller.
C3_Step ==
  last'.op = "postFail" =>
    /\ todos' = todos
    /\ error' = ErrAdd
    /\ tempTodo' = <<>>
    /\ last'.signal # "none"

C3_AddFailure == [][C3_Step]_vars

\* A create failed with a non-empty collection.
C3_Witness ==
  /\ last.op = "postFail" /\ Len(todos) > 0 /\ error = ErrAdd
  /\ tempTodo = <<>>

\* C4: the step that handles a successful create appends the record the
\* service returned to the collection as it was (length + 1, the todos
\* before it unchanged and in order), clears the error and the temp todo.
C4_Step ==
  last'.op = "postOk" =>
    /\ Len(todos') = Len(todos) + 1
    /\ SubSeq(todos', 1, Len(todos)) = todos
    /\ error' = ""
    /\ tempTodo' = <<>>
    /\ \E s \in DOMAIN reqs :
         /\ SettledAt(s)
         /\ reqs[s].kind = "post" /\ reqs[s].status = "ok"
         /\ todos'[Len(todos')] =
              [id |-> reqs[s].resp.id, title |-> reqs[s].resp.title,
               completed |-> reqs[s].resp.completed, loading |-> FALSE]

C4_AddSuccess == [][C4_Step]_vars

\* A create succeeded with two todos in the collection: the new one, with
\* the id the service gave it, is the third.
C4_Witness ==
  /\ last.op = "postOk" /\ Len(todos) = 3 /\ error = "" /\ tempTodo = <<>>
  /\ todos[3].id = 3

\* C5: in every state, an add whose title is white space only sends no
\* request and publishes no temp todo: the requests, the collection and the
\* temp todo stay as they are and the error becomes "Title should not be
\* empty".
C5_Step ==
  \A title \in NewTitles :
    (Blank(title) /\ addTodo(title)) =>
      /\ reqs' = reqs
      /\ tempTodo' = tempTodo
      /\ todos' = todos
      /\ error' = ErrEmptyTitle

C5_EmptyTitle == [][C5_Step]_vars

\* An empty add while an earlier add is in flight: its placeholder stays.
C5_Witness ==
  /\ last.op = "addEmpty" /\ error = ErrEmptyTitle
  /\ tempTodo # <<>> /\ Len(reqs) = 1 /\ reqs[1].kind = "post"

\* C6: the step that handles a failed update issued by a todo item (status
\* checkbox or inline editor) leaves the collection as it was, sets the
\* error to "Unable to update a todo", re-signals the failure, and clears
\* the loading state of the item instance that issued the request.
C6_Step ==
  (last'.op = "patchFail" /\ last'.caller \in {"status", "edit"}) =>
    /\ todos' = todos
    /\ error' = ErrUpdate
    /\ last'.signal # "none"
    /\ \E s \in DOMAIN reqs :
         /\ SettledAt(s)
         /\ reqs[s].kind = "patch" /\ reqs[s].id = last'.id
         /\ reqs[s].caller = last'.caller
         /\ reqs[s].inst =>
              /\ reqs[s].id \in DOMAIN itemLoading'
              /\ ~itemLoading'[reqs[s].id]

C6_UpdateFailure == [][C6_Step]_vars

\* The update a status checkbox issued has failed; the item is rendered and
\* no longer loading, and the todo is as it was.
C6_Witness ==
  /\ last.op = "patchFail" /\ last.caller = "status" /\ userActions = 1
  /\ error = ErrUpdate
  /\ last.id \in DOMAIN itemLoading /\ ~itemLoading[last.id]
  /\ \E i \in 1..Len(todos) : todos[i].id = last.id /\ todos[i].completed

NotCompleted(todo) == ~todo.completed

\* C7: clear-completed sends, in one step, exactly one delete per todo that
\* is completed at invocation and none for any other, and leaves the
\* collection alone; when all the deletions have succeeded and nothing but
\* this flow changed the collection meanwhile, the collection at the join is
\* exactly the todos that were not completed at invocation, in their order
\* and with their fields.
C7_Step ==
  /\ last'.op = "clearCompleted" =>
       /\ todos' = todos
       /\ SubSeq(reqs', 1, Len(reqs)) = reqs
       /\ \A k \in 1..Len(Sent) :
            Sent[k].kind = "delete" /\ Sent[k].status = "sent"
       /\ \A id \in Ids(todos) \cup Ids(Sent) :
            Cardinality({k \in 1..Len(Sent) : Sent[k].id = id})
              = Cardinality({i \in 1..Len(todos) :
                               todos[i].id = id /\ todos[i].completed})
  /\ \A f \in Slots :
       (/\ flows[f].kind = "clear" /\ flows'[f].kind = "none"
        /\ ~last'.rejected /\ flows[f].quiet) =>
         todos' = SelectSeq(flows[f].snap, NotCompleted)

C7_ClearCompleted == [][C7_Step]_vars

\* C8: in clear-completed, a deletion that succeeds removes its todo and
\* nothing else, a deletion that fails changes nothing (whatever became of
\* the others), the flow stays open until every deletion has settled, and
\* when it joins with a failed deletion the error is "Some todos could not
\* be deleted", also when a deletion of the batch succeeded after the
\* failure.
C8_Step ==
  /\ (last'.caller = "clearCompleted" /\ last'.op = "deleteOk") =>
       LET keep(todo) == todo.id # last'.id IN todos' = SelectSeq(todos, keep)
  /\ (last'.caller = "clearCompleted" /\ last'.op = "deleteFail") =>
       todos' = todos
  /\ \A f \in Slots :
       flows'[f].kind = "clear" => \E t \in DOMAIN reqs' : reqs'[t].flow = f
  /\ \A f \in Slots :
       (flows[f].kind = "clear" /\ flows'[f].kind = "none") =>
         /\ \A t \in DOMAIN reqs' : reqs'[t].flow # f
         /\ last'.rejected => error' = ErrSomeDelete
  /\ \A f \in Slots :
       (/\ flows[f].kind = "clear" /\ flows'[f].kind = "none"
        /\ flows[f].quiet) =>
         LET failedIds ==
               flows[f].failed \cup
                 (IF last'.op = "deleteFail" THEN {last'.id} ELSE {})
             completed(todo) == todo.completed
             remains(todo) == todo.completed /\ todo.id \in failedIds
         IN  SelectSeq(todos', completed) = SelectSeq(flows[f].snap, remains)

C8_ClearCompletedPartial == [][C8_Step]_vars

\* A clear-completed of two todos has joined: the first deletion failed and
\* its todo is still there, the second succeeded after it and its todo is
\* gone.
C8_Witness ==
  /\ last.join = "clear" /\ last.rejected /\ last.op = "deleteOk"
  /\ error = ErrSomeDelete /\ userActions = 1
  /\ Len(todos) = 1 /\ todos[1].completed /\ todos[1].id # last.id

\* C9: no rejection of a remote request goes unhandled: whichever caller
\* started the request, some handler consumes the rejection the flow
\* re-signals.
C9_NoUnhandledRejection == last.signal # "unhandled"

\* C10 (as claimed): a message leaves the error slot only when the timer
\* fires or another message takes its place; no other step empties the slot.
C10_OnlyTimerOrReplaced ==
  [][(error # "" /\ error' # error) =>
       (last'.op = "timer" \/ error' # "")]_vars

\* C10 (amended): a message leaves the error slot only when another message
\* takes its place, when the timer fires, which it does not before the
\* message has been showing for ErrorDelay ms, or when a create or a delete
\* request succeeds, whichever user action started it, as every such
\* success does; a successful update, a successful fetch, the join of
\* toggle-all and a change of filter never empty the slot.
C10_Step ==
  /\ (error # "" /\ error' = "") =>
       last'.op \in {"timer", "postOk", "deleteOk"}
  /\ last'.op = "timer" => (elapsed >= ErrorDelay /\ error # "" /\ error' = "")
  /\ last'.op = "postOk" => error' = ""
  /\ (last'.op = "deleteOk" /\ last'.join = "none") => error' = ""

C10_ErrorLeavesSlot == [][C10_Step]_vars

\* A delete request has succeeded while the message of an earlier user
\* action was showing, and the slot is empty now.
C10_Witness ==
  /\ last.op = "deleteOk" /\ last.cleared
  /\ error = "" /\ userActions = 2

\* C11: toggle-all on an empty collection sends no request and changes
\* nothing: the collection stays empty, the error slot, the placeholder and
\* the timer keep their values and no flow is opened.
C11_Step ==
  (todos = <<>> /\ toggleAllTodos) =>
    /\ last'.op = "toggleAllEmpty"
    /\ UNCHANGED <<todos, tempTodo, error, todoFilterValue, elapsed,
                   itemLoading, reqs, flows, load, server>>

C11_ToggleAllEmpty == [][C11_Step]_vars

\* Toggle-all was invoked on the empty collection while the load-failure
\* message was showing; the message is still there.
C11_Witness ==
  /\ last.op = "toggleAllEmpty" /\ todos = <<>>
  /\ error = ErrLoad /\ reqs = <<>>

\* C12 (as claimed): once the fetch-all has failed the collection is empty,
\* whatever the user started before the failure was handled.
C12_EmptyAfterLoadFailure == load.status = "failed" => todos = <<>>

\* C12 (amended): the step that handles the failed fetch-all sets the error
\* to "Unable to load todos" and leaves the collection as it is; the fetch
\* is never sent again; and as long as no fetch has succeeded the collection
\* holds nothing but what successful creates appended, so it is empty unless
\* an add succeeded.
C12_Step ==
  /\ last'.op = "loadFail" =>
       /\ load.status = "sent" /\ load'.status = "failed"
       /\ error' = ErrLoad
       /\ todos' = todos /\ tempTodo' = tempTodo /\ reqs' = reqs
  /\ load.status = "failed" => load' = load
  /\ (load'.status # "done" /\ Len(todos') > Len(todos)) =>
       (last'.op = "postOk" /\ Len(todos') = Len(todos) + 1)

C12_LoadFailure == [][C12_Step]_vars

\* The fetch-all failed after an add that the user started before it had
\* succeeded: the message is showing and the collection holds the new todo.
C12_Witness ==
  /\ last.op = "loadFail" /\ load.status = "failed"
  /\ error = ErrLoad /\ Len(todos) = 1

\* C13: the timer that empties the error slot was armed when the message
\* showing was last raised: when it fires, ErrorDelay ms have passed since a
\* flow last raised a message, so every raised message is shown for the full
\* delay unless it is replaced or a flow clears it.
C13_TimerRestarts == [][last'.op = "timer" => shown >= ErrorDelay]_vars

\* C14: the ids of the todos in the collection are pairwise distinct and
\* none is 0.
C14_UniqueIds ==
  /\ \A i, j \in 1..Len(todos) : todos[i].id = todos[j].id => i = j
  /\ \A i \in 1..Len(todos) : todos[i].id # 0

PostsInFlight == {s \in DOMAIN reqs : reqs[s].kind = "post"}

\* C15: while the placeholder is present some create request is in flight,
\* so with no create in flight it is absent; the placeholder has id 0 and is
\* kept apart from the collection: no todo of the collection, and so none of
\* the filtered list and of the two counted lists, has id 0.
C15_Placeholder ==
  /\ tempTodo # <<>> => (PostsInFlight # {} /\ tempTodo[1].id = 0)
  /\ \A todo \in Range(todos) \cup Range(filteredTodos)
              \cup Range(uncompletedTodos) \cup Range(completedTodos) :
       todo.id # 0

\* The placeholder is showing next to a loaded collection that the user
\* filters by "active".
C15_Witness ==
  /\ tempTodo # <<>> /\ PostsInFlight # {}
  /\ todos # <<>> /\ todoFilterValue = FilterActive

\* C16: while some create request is in flight the placeholder is present,
\* also when adds overlap.
C16_PlaceholderShown == PostsInFlight # {} => tempTodo # <<>>

MutationsInFlight == {s \in DOMAIN reqs : reqs[s].kind \in {"patch", "delete"}}
ToggleAllPending == \E f \in Slots : flows[f].kind = "toggle"

\* C17: when no update or delete request is in flight and no toggle-all is
\* waiting for its join, no todo of the collection has its loading flag set
\* and no rendered item has its local loading state set.
C17_NoStuckLoading ==
  (MutationsInFlight = {} /\ ~ToggleAllPending) =>
    /\ \A i \in 1..Len(todos) : ~todos[i].loading
    /\ \A id \in DOMAIN itemLoading : ~itemLoading[id]

\* A toggle-all whose last update failed has just joined and nothing else is
\* under way: the items it had marked are rendered and not loading.
C17_Witness ==
  /\ last.op = "patchFail" /\ last.join = "toggle"
  /\ MutationsInFlight = {} /\ ~ToggleAllPending
  /\ todos # <<>> /\ DOMAIN itemLoading = Ids(todos)
  /\ \A id \in DOMAIN itemLoading : ~itemLoading[id]

Quiescent ==
  /\ reqs = <<>> /\ load.status = "done"
  /\ \A f \in Slots : flows[f].kind = "none"

\* C18: in a run without a failed request, whenever no request is in flight
\* and no flow is pending, the collection holds the ids the remote service
\* holds and every todo has the title and the completed value of the
\* service's record.
C18_LocalAgreesWithRemote ==
  Quiescent =>
    /\ Ids(todos) = Ids(server.records)
    /\ \A todo \in Range(todos) : \E rec \in Range(server.records) :
         /\ rec.id = todo.id
         /\ rec.title = todo.title
         /\ rec.completed = todo.completed

\* C19: the step that handles an update's response, the toggle-all join
\* included, leaves the ids of the collection and their order as they are,
\* so a todo removed while its update was in flight is not put back; outside
\* a join the step changes no todo but the one with the response's id.
C19_Step ==
  last'.op \in {"patchOk", "patchFail"} =>
    /\ Len(todos') = Len(todos)
    /\ \A i \in 1..Len(todos) : todos'[i].id = todos[i].id
    /\ last'.join = "none" =>
         \A i \in 1..Len(todos) :
           todos[i].id # last'.id => todos'[i] = todos[i]

C19_UpdateKeepsIds == [][C19_Step]_vars

\* An update has succeeded for a todo that was deleted while the update was
\* in flight: the todo is not in the collection.
C19_Witness ==
  /\ last.op = "patchOk" /\ last.id \notin Ids(todos)
  /\ last.id \notin Ids(server.records)
  /\ load.status = "done" /\ userActions = 2

\* C20: while an update or delete request for a todo is in flight the todo's
\* item, when rendered, is loading (its controls are disabled), and no two
\* such requests for the same todo are in flight together.
C20_LoadingWhileInFlight ==
  /\ \A s \in MutationsInFlight :
       reqs[s].id \in DOMAIN itemLoading => itemLoading[reqs[s].id]
  /\ \A s, t \in MutationsInFlight : reqs[s].id = reqs[t].id => s = t

====
